---- MODULE Spec2Model ----
(***************************************************************************)
(* A model of scripts/clustering.py: the corpus loader, the embedding      *)
(* cache, the projection and label caches, the per-cluster labeling pass   *)
(* and the output writer, run after run over the same ./tmp directory.     *)
(***************************************************************************)
EXTENDS Integers, Sequences, FiniteSets, TLC

\* ------------------------------------------------------------------ bounds
\* raw items scanned by one load_records call
MaxItems == 4
\* source documents of one year
MaxFiles == 2
\* largest --limit tried
MaxLimit == 2

\* ------------------------------------------------------------ small helpers
None == "None"

Range(s) == {s[i] : i \in 1..Len(s)}

RECURSIVE SumSeq(_)
SumSeq(s) == IF s = <<>> THEN 0 ELSE Head(s) + SumSeq(Tail(s))

\* ------------------------------------------------------------ load_records
\* A title is a sequence of characters; " " and "\n" stand for the whitespace
\* characters, "\n" being the one sha256_of_titles uses as its delimiter.
Whitespace == {" ", "\n"}

\* an item without a "title" key (or with null)
Missing == <<"(missing)">>

\* the raw "title" fields tried: missing, empty, blank, padded, two cases,
\* a blank inside, a line break inside
RawTitles ==
    {Missing, <<>>, <<" ">>, <<"a">>, <<"A">>, <<" ", "a">>, <<"a", " ">>, <<"a", " ", "a">>,
     <<"a", "\n", "A">>}

RECURSIVE lstrip(_)
lstrip(s) == IF s # <<>> /\ Head(s) \in Whitespace THEN lstrip(Tail(s)) ELSE s

RECURSIVE rstrip(_)
rstrip(s) ==
    IF s # <<>> /\ s[Len(s)] \in Whitespace THEN rstrip(SubSeq(s, 1, Len(s) - 1)) ELSE s

\* str.strip()
strip(s) == rstrip(lstrip(s))

\* (item.get("title") or "").strip()
item_title(raw) == strip(IF raw = Missing THEN <<>> ELSE raw)

VARIABLES
    lpc,          \* load_records: "open" (between files), "items" (inside one), "done"
    limit,        \* the limit argument
    total_files,  \* len(files)
    idx,          \* enumerate(files, start=1): files taken so far
    seen,         \* the dict seen, as the sequence of its values in insertion order
    next_id,
    scanned       \* every raw title the inner loop has taken, in order

ldVars == <<lpc, limit, total_files, idx, seen, next_id, scanned>>

\* Record(id, title, link, date, source, dup_count); link and date are copied
\* from the first item and never read again, source is the file taken.
Record(id, title, source) == [id |-> id, title |-> title, source |-> source, dup_count |-> 1]

\* title in seen
seen_index(s, title) ==
    IF \E i \in 1..Len(s) : s[i].title = title
    THEN CHOOSE i \in 1..Len(s) : s[i].title = title
    ELSE 0

\* a test that lets one more title in
limit_reached_late(l, n) == l # 0 /\ n > l

\* if limit and next_id >= limit
limit_reached(l, n) == l # 0 /\ n >= l

\* a repeat that is dropped without being counted
load_item_step_dup_uncounted(s, title) == s

\* "seen[title].dup_count += 1" of an item whose title is in seen
load_item_step_dup(s, title) ==
    [s EXCEPT ![seen_index(s, title)].dup_count = @ + 1]

LoadInit ==
    /\ lpc = "open"
    /\ limit \in 0..MaxLimit
    /\ total_files \in 0..MaxFiles
    /\ idx = 0
    /\ seen = <<>>
    /\ next_id = 0
    /\ scanned = <<>>

\* for idx, path in enumerate(files, start=1): a document json.loads rejects
load_skip_file ==
    /\ lpc = "open"
    /\ idx < total_files
    /\ idx' = idx + 1
    /\ UNCHANGED <<lpc, limit, total_files, seen, next_id, scanned>>

\* ... a document that parses: enter "for item in items"
load_open_file ==
    /\ lpc = "open"
    /\ idx < total_files
    /\ idx' = idx + 1
    /\ lpc' = "items"
    /\ UNCHANGED <<limit, total_files, seen, next_id, scanned>>

\* one iteration of "for item in items"
load_item(raw) ==
    /\ lpc = "items"
    /\ Len(scanned) < MaxItems
    /\ scanned' = Append(scanned, raw)
    /\ LET title == item_title(raw) IN
       IF title = <<>>
       THEN UNCHANGED <<lpc, seen, next_id>>
       ELSE IF seen_index(seen, title) # 0
       THEN /\ seen' = load_item_step_dup(seen, title)
            /\ UNCHANGED <<lpc, next_id>>
       ELSE /\ seen' = Append(seen, Record(next_id, title, idx))
            /\ next_id' = next_id + 1
            \* the inner break, then the outer one
            /\ lpc' = IF limit_reached(limit, next_id + 1) THEN "done" ELSE "items"
    /\ UNCHANGED <<limit, total_files, idx>>

\* the items of the document are exhausted
load_end_file ==
    /\ lpc = "items"
    /\ lpc' = IF limit_reached(limit, next_id) THEN "done" ELSE "open"
    /\ UNCHANGED <<limit, total_files, idx, seen, next_id, scanned>>

\* the documents are exhausted: return list(seen.values())
load_return ==
    /\ lpc = "open"
    /\ idx = total_files
    /\ lpc' = "done"
    /\ UNCHANGED <<limit, total_files, idx, seen, next_id, scanned>>

load_records ==
    \/ load_skip_file
    \/ load_open_file
    \/ \E raw \in RawTitles : load_item(raw)
    \/ load_end_file
    \/ load_return

\* ------------------------------------------- the functions checked alone
\* titles of one sequence handed to sha256_of_titles
MaxTitles == 2
\* largest len(embeddings) handed to cluster_kmeans
MaxRecords == 13

VARIABLES
    \* two calls of sha256_of_titles, side by side
    texts,        \* the argument of each call: a sequence of titles
    hpos,         \* titles each loop has taken
    hbuf,         \* the bytes each hash object has been fed
    hexdigest,    \* the value each call returned
    \* one call of cluster_kmeans
    kpc,
    n,            \* len(embeddings)
    candidates,
    kpos,         \* pick_kmeans_k: candidates the loop has taken
    best_k,
    best_score,
    scored,       \* pick_kmeans_k: <<k, score>> of every candidate scored, in order
    raised        \* pick_kmeans_k: the candidates whose silhouette_score raised

hashVars == <<texts, hpos, hbuf, hexdigest>>
kmVars == <<kpc, n, candidates, kpos, best_k, best_score, scored, raised>>
fnVars == <<hashVars, kmVars>>

\* no call of sha256_of_titles under way
HashIdle ==
    /\ texts = <<<<>>, <<>>>>
    /\ hpos = <<0, 0>>
    /\ hbuf = <<<<>>, <<>>>>
    /\ hexdigest = <<<<>>, <<>>>>

\* no call of cluster_kmeans under way
KmIdle ==
    /\ kpc = "idle"
    /\ n = 0
    /\ candidates = <<>>
    /\ kpos = 0
    /\ best_k = 0
    /\ best_score = 0
    /\ scored = <<>>
    /\ raised = {}


\* ------------------------------------------------------- sha256_of_titles
\* the titles load_records can retain: trimmed and not empty
Titles == {item_title(raw) : raw \in RawTitles} \ {<<>>}

\* the title sequences load_records can return: no title twice
TitleSeqs ==
    {ts \in UNION {[1..k -> Titles] : k \in 0..MaxTitles} :
        \A a, b \in DOMAIN ts : a # b => ts[a] # ts[b]}

\* two calls, each on a sequence of titles; a title is taken as the bytes
\* title.encode("utf-8") gives, one per character here
HashInit ==
    /\ texts \in TitleSeqs \X TitleSeqs
    /\ hpos = <<0, 0>>
    /\ hbuf = <<<<>>, <<>>>>
    /\ hexdigest = <<<<>>, <<>>>>

\* one iteration of "for title in titles": h.update(title), h.update(b"\n")
sha256_update(j) ==
    /\ hexdigest[j] = <<>>
    /\ hpos[j] < Len(texts[j])
    /\ hbuf' = [hbuf EXCEPT ![j] = (@ \o texts[j][hpos[j] + 1]) \o <<"\n">>]
    /\ hpos' = [hpos EXCEPT ![j] = @ + 1]
    /\ UNCHANGED <<texts, hexdigest>>

\* return h.hexdigest(): the digest stands for the bytes it was fed
sha256_hexdigest(j) ==
    /\ hexdigest[j] = <<>>
    /\ hpos[j] = Len(texts[j])
    /\ hexdigest' = [hexdigest EXCEPT ![j] = <<"sha256", hbuf[j]>>]
    /\ UNCHANGED <<texts, hpos, hbuf>>

\* ------------------------------------------------------------ the pipeline
\* runs of main() over one ./tmp directory
MaxRuns == 2
\* calls of get_embeddings over one ./tmp directory
MaxEmbRuns == 3

\* batch_size of get_embeddings
batch_size == 128

\* a file of ./tmp: missing, cut short or unparsable, or holding a value
Absent == [st |-> "absent"]
Corrupt == [st |-> "corrupt"]
\* a variable of the run that holds nothing (yet)
Unset == [st |-> "unset"]

\* The corpora load_records may yield for the year (the data directory and
\* --limit differ from run to run), by name, and how many records each holds.
Corpora == {"A", "B"}
CorpusCount(c) == IF c = "A" THEN 130 ELSE 300

\* --model
Models == {"arctic", "other"}

Min(a, b) == IF a < b THEN a ELSE b

VARIABLES
    \* the files of ./tmp
    emb_file,        \* embeddings_{year}.npy
    meta_file,       \* meta_{year}.json
    umap_2d_file,    \* umap_2d_{year}.npy
    umap_10d_file,   \* umap_10d_{year}.npy
    labels_file,     \* labels_{method}_{year}.npy, by method
    clusters_file,   \* clusters_{method}.json, by method
    summary_file,    \* clusters_{method}_summary.json, by method
    run_meta_file,   \* run_{year}_meta.json
    \* one run of main()
    pc,
    args,
    records,
    embeddings,
    meta,
    i,               \* get_embeddings: the batch offset
    all_embs,        \* get_embeddings: rows gathered so far
    umap_2d,
    umap_10d,
    strat,           \* which of the three strategy blocks of main() is running
    labels,
    summary,
    existing,
    sidx,            \* add_llm_summaries: summaries handled so far
    service,         \* how the language-model service answers during the run
    \* what the run did, for the properties
    runs,
    log

diskVars ==
    <<emb_file, meta_file, umap_2d_file, umap_10d_file, labels_file, clusters_file,
      summary_file, run_meta_file>>
embVars == <<embeddings, meta, i, all_embs>>
stageVars == <<umap_2d, umap_10d, strat, labels, summary, existing, sidx>>
memVars == <<pc, args, records, service, embVars, stageVars>>
runVars == <<diskVars, memVars, runs, log>>

vars == <<ldVars, fnVars, runVars>>

Methods == {"hdbscan", "kmeans", "kmeans_embed", "agglomerative"}

EmptyLog ==
    [embed |-> <<>>, hit |-> FALSE, llm |-> <<>>, outcome |-> None, computed |-> {},
     loaded |-> {}, wrote |-> {}, skipped |-> {}, cause |-> None, stored |-> Absent,
     rerun |-> FALSE]

\* a --force that leaves resume on
parse_args_force_keeps_resume(model, force, force_embed, force_umap, force_cluster, llm_summary, kme, mcs) ==
    [model |-> model,
     min_cluster_size |-> mcs,
     min_samples |-> 5,
     force |-> force,
     force_embed |-> force_embed \/ force,
     force_umap |-> force_umap \/ force,
     force_cluster |-> force_cluster \/ force,
     llm_summary |-> llm_summary,
     kmeans_on_embeddings |-> kme,
     resume |-> TRUE]

\* parse_args(), and the --force block of main()
parse_args(model, force, force_embed, force_umap, force_cluster, llm_summary, kme, mcs) ==
    [model |-> model,
     min_cluster_size |-> mcs,
     min_samples |-> 5,
     force |-> force,
     force_embed |-> force_embed \/ force,
     force_umap |-> force_umap \/ force,
     force_cluster |-> force_cluster \/ force,
     llm_summary |-> llm_summary,
     kmeans_on_embeddings |-> kme,
     resume |-> ~force]

NoArgs == parse_args("arctic", FALSE, FALSE, FALSE, FALSE, FALSE, FALSE, 15)

\* sha256_of_titles(titles) of the records of a corpus: the digest is taken to
\* tell the corpora apart
corpus_hash(c) == <<"sha256", c>>

\* the meta dict of get_embeddings
new_meta(c, a) ==
    [st |-> "ok", model |-> a.model, corpus_hash |-> corpus_hash(c), count |-> CorpusCount(c)]

\* the matrix the embedding service yields for the records of c under a model
Matrix(c, model, rows) == [st |-> "ok", corpus |-> c, model |-> model, rows |-> rows]

MemInit ==
    /\ pc = "idle"
    /\ service = "any"
    /\ args = NoArgs
    /\ records = None
    /\ embeddings = Unset
    /\ meta = Unset
    /\ i = 0
    /\ all_embs = 0
    /\ umap_2d = Unset
    /\ umap_10d = Unset
    /\ strat = 0
    /\ labels = Unset
    /\ summary = <<>>
    /\ existing = {}
    /\ sidx = 0

RunReset ==
    /\ embeddings' = Unset
    /\ meta' = Unset
    /\ i' = 0
    /\ all_embs' = 0
    /\ umap_2d' = Unset
    /\ umap_10d' = Unset
    /\ strat' = 0
    /\ labels' = Unset
    /\ summary' = <<>>
    /\ existing' = {}
    /\ sidx' = 0

DiskInit ==
    /\ emb_file = Absent
    /\ meta_file = Absent
    /\ umap_2d_file = Absent
    /\ umap_10d_file = Absent
    /\ labels_file = [m \in Methods |-> Absent]
    /\ clusters_file = [m \in Methods |-> Absent]
    /\ summary_file = [m \in Methods |-> Absent]
    /\ run_meta_file = Absent

\* the loader at rest, for the specifications of the pipeline
LoadIdle ==
    /\ lpc = "done"
    /\ limit = 0
    /\ total_files = 0
    /\ idx = 0
    /\ seen = <<>>
    /\ next_id = 0
    /\ scanned = <<>>

RunInit ==
    LoadIdle /\ HashIdle /\ KmIdle /\ DiskInit /\ MemInit /\ runs = 0 /\ log = EmptyLog

\* the process is gone: nothing of the run is left but ./tmp
MemReset ==
    /\ RunReset
    /\ service' = "any"
    /\ args' = NoArgs
    /\ records' = None
    /\ log' = EmptyLog

\* a cache test that does not compare the fingerprints
cache_hit_any_corpus ==
    /\ emb_file # Absent
    /\ meta_file # Absent
    /\ ~args.force_embed
    /\ meta_file # Corrupt
    /\ meta_file.model = args.model
    /\ emb_file # Corrupt

\* the cache test of get_embeddings
cache_hit ==
    /\ emb_file # Absent
    /\ meta_file # Absent
    /\ ~args.force_embed
    /\ meta_file # Corrupt
    /\ meta_file.corpus_hash = corpus_hash(records)
    /\ meta_file.model = args.model
    /\ emb_file # Corrupt

\* get_embeddings up to the batch loop
get_embeddings ==
    /\ pc = "get_embeddings"
    /\ IF cache_hit
       THEN /\ embeddings' = emb_file
            /\ meta' = meta_file
            /\ log' = [log EXCEPT !.hit = TRUE]
            /\ pc' = "umap_2d"
            /\ UNCHANGED <<i, all_embs>>
       ELSE /\ meta' = new_meta(records, args)
            /\ i' = 0
            /\ all_embs' = 0
            /\ pc' = "embed"
            /\ UNCHANGED <<embeddings, log>>
    /\ UNCHANGED <<diskVars, ldVars, fnVars, args, records, service, stageVars, runs>>

\* one iteration of the batch loop: ollama_embed_batch answers one row per title
embed_batch ==
    /\ pc = "embed"
    /\ i < CorpusCount(records)
    /\ all_embs' = all_embs + Min(batch_size, CorpusCount(records) - i)
    /\ i' = i + batch_size
    /\ log' = [log EXCEPT !.embed = Append(@, i)]
    /\ UNCHANGED <<diskVars, ldVars, fnVars, pc, args, records, service, embeddings, meta, stageVars, runs>>

\* a failure that leaves the rows gathered so far in the matrix file
embed_batch_raises_keeps_rows ==
    /\ pc = "embed"
    /\ i < CorpusCount(records)
    /\ pc' = "failed"
    /\ log' = [log EXCEPT !.cause = "embed"]
    /\ emb_file' = Matrix(records, args.model, all_embs)
    /\ UNCHANGED <<meta_file, umap_2d_file, umap_10d_file, labels_file, clusters_file,
                   summary_file, run_meta_file>>
    /\ UNCHANGED <<ldVars, fnVars, args, records, service, embVars, stageVars, runs>>

\* ... or raises (raise_for_status, a timeout): the run ends with the exception
embed_batch_raises ==
    /\ pc = "embed"
    /\ i < CorpusCount(records)
    /\ pc' = "failed"
    /\ log' = [log EXCEPT !.cause = "embed"]
    /\ UNCHANGED <<diskVars, ldVars, fnVars, args, records, service, embVars, stageVars, runs>>

\* np.vstack(all_embs); np.save(emb_path, embeddings)
save_embeddings ==
    /\ pc = "embed"
    /\ i >= CorpusCount(records)
    /\ embeddings' = Matrix(records, args.model, all_embs)
    /\ emb_file' = Matrix(records, args.model, all_embs)
    /\ pc' = "save_meta"
    /\ UNCHANGED <<meta_file, umap_2d_file, umap_10d_file, labels_file, clusters_file,
                   summary_file, run_meta_file>>
    /\ UNCHANGED <<ldVars, fnVars, args, records, service, meta, i, all_embs, stageVars, runs, log>>

\* meta_path.write_text(...); return embeddings, meta
save_meta ==
    /\ pc = "save_meta"
    /\ meta_file' = meta
    /\ log' = [log EXCEPT !.computed = @ \cup {"embeddings"}]
    /\ pc' = "umap_2d"
    /\ UNCHANGED <<emb_file, umap_2d_file, umap_10d_file, labels_file, clusters_file,
                   summary_file, run_meta_file>>
    /\ UNCHANGED <<ldVars, fnVars, args, records, service, embVars, stageVars, runs>>

\* the process is killed (or ends): what is in memory is lost, ./tmp stays
kill ==
    /\ pc \notin {"idle", "done", "failed"}
    /\ pc' = "idle"
    /\ MemReset
    /\ UNCHANGED <<diskVars, ldVars, fnVars, runs>>

\* the process is killed inside np.save or write_text: the file is left cut short
kill_in_write_emb ==
    /\ \/ pc = "embed" /\ i >= CorpusCount(records) /\ emb_file' = Corrupt
                       /\ UNCHANGED meta_file
       \/ pc = "save_meta" /\ meta_file' = Corrupt /\ UNCHANGED emb_file
    /\ pc' = "idle"
    /\ MemReset
    /\ UNCHANGED <<umap_2d_file, umap_10d_file, labels_file, clusters_file,
                   summary_file, run_meta_file>>
    /\ UNCHANGED <<ldVars, fnVars, runs>>

\* ------------------------------------------------- projections and labels
\* reducer.fit_transform(embeddings): one row per row of the embedding matrix
reduce_umap(emb, n_components) ==
    [st |-> "ok", dims |-> n_components, corpus |-> emb.corpus, model |-> emb.model,
     rows |-> emb.rows]

\* the three strategy blocks of main(), in order
Strategies == <<"hdbscan", "kmeans", "agglomerative">>

\* km_method, and the fixed names of the two other blocks
method(s, a) ==
    IF Strategies[s] = "kmeans" /\ a.kmeans_on_embeddings THEN "kmeans_embed"
    ELSE Strategies[s]

\* cluster_hdbscan, cluster_kmeans, cluster_agglomerative: fit_predict gives one
\* label per row of its input; the array is named by what it was computed from
fit_predict(mth, input, a) ==
    [st |-> "ok", alg |-> mth, corpus |-> input.corpus, model |-> input.model,
     par |-> IF mth = "hdbscan" THEN <<a.min_cluster_size, a.min_samples>> ELSE <<>>,
     rows |-> input.rows]

\* set(labels): the cluster ids the clustering library gave that input (-1 is
\* the noise id of hdbscan)
cluster_ids(lab) ==
    CASE lab.alg = "hdbscan" ->
           IF lab.corpus = "A" /\ lab.par[1] = 15 THEN {-1, 0} ELSE {-1, 0, 1}
      [] lab.alg = "agglomerative" -> IF lab.corpus = "A" THEN {0, 1} ELSE {0, 1, 2}
      [] OTHER -> {0, 1}

RECURSIVE sorted(_)
\* sorted(set)
sorted(S) ==
    IF S = {} THEN <<>>
    ELSE LET lo == CHOOSE x \in S : \A y \in S : x <= y IN <<lo>> \o sorted(S \ {lo})

\* summarize_clusters: one entry per cluster id, ascending; size and
\* sample_titles are read off the records and the labels
summarize_clusters(c, lab) ==
    LET ids == sorted(cluster_ids(lab)) IN
    [k \in 1..Len(ids) |->
        [cluster |-> ids[k], samples |-> <<c, lab.corpus, lab.model, lab.par>>]]

\* records[i] for a row i the records do not have: IndexError
rows_outrun_records(c, lab) == lab.rows > CorpusCount(c)

\* json.dumps(summaries) as stored in clusters_{method}_summary.json
summary_doc(summ) == [st |-> "ok", items |-> summ]

\* a test that takes an empty keyword list for keywords
no_keywords_key_only(d) == "llm_keywords" \notin DOMAIN d

\* not d.get("llm_keywords")
no_keywords(d) == "llm_keywords" \notin DOMAIN d \/ d.llm_keywords = <<>>

\* a completeness test that lets the stored clusters be some of the current ones
is_summary_complete_subset(doc, lab, require_llm) ==
    /\ doc # Absent
    /\ doc # Corrupt
    /\ doc.items # <<>>
    /\ {doc.items[k].cluster : k \in 1..Len(doc.items)} \subseteq cluster_ids(lab)
    /\ require_llm => \A k \in 1..Len(doc.items) : ~no_keywords(doc.items[k])

\* is_summary_complete(summary_path, labels, require_llm)
is_summary_complete(doc, lab, require_llm) ==
    /\ doc # Absent
    /\ doc # Corrupt
    /\ doc.items # <<>>
    /\ {doc.items[k].cluster : k \in 1..Len(doc.items)} = cluster_ids(lab)
    /\ require_llm => \A k \in 1..Len(doc.items) : ~no_keywords(doc.items[k])

\* the dict existing of add_llm_summaries, as the set of its (cluster, keywords)
read_existing(doc, a) ==
    IF a.resume /\ doc # Absent /\ doc # Corrupt
    THEN {[cluster |-> doc.items[k].cluster, llm_keywords |-> doc.items[k].llm_keywords] :
            k \in {j \in 1..Len(doc.items) : "llm_keywords" \in DOMAIN doc.items[j]}}
    ELSE {}

\* a test that keeps a stored list even when it is empty
carried_any(ex, cid) == \E e \in ex : e.cluster = cid

\* int(cid) in existing and existing[int(cid)]
carried(ex, cid) == \E e \in ex : e.cluster = cid /\ e.llm_keywords # <<>>

existing_of(ex, cid) == (CHOOSE e \in ex : e.cluster = cid).llm_keywords

\* the keyword list the language model gives for the titles of one cluster of
\* one label array: a non-empty list of strings, named by the request
keywords_for(c, lab, cid) == <<[titles_of |-> <<c, lab.alg, lab.corpus, lab.model, lab.par, cid>>]>>

\* zip(records, labels, umap_2d) as stored in clusters_{method}.json
clusters_doc(c, lab, xy) ==
    [st |-> "ok", records |-> c, labels |-> lab, umap |-> xy,
     rows |-> Min(CorpusCount(c), Min(lab.rows, xy.rows))]

raise(cause) ==
    /\ pc' = "failed"
    /\ log' = [log EXCEPT !.cause = cause]

\* a test that recomputes whatever follows a recomputed embedding matrix
reuse_unless_embedded(file, forced) ==
    args.resume /\ file # Absent /\ ~forced /\ "embeddings" \notin log.computed

\* if args.resume and path.exists() and not args.force_...
reuse(file, forced) == args.resume /\ file # Absent /\ ~forced

\* umap_2d: np.load, or reduce_umap and np.save
main_umap_2d ==
    /\ pc = "umap_2d"
    /\ IF reuse(umap_2d_file, args.force_umap)
       THEN IF umap_2d_file = Corrupt
            THEN raise("np.load") /\ UNCHANGED <<umap_2d, umap_2d_file>>
            ELSE /\ umap_2d' = umap_2d_file
                 /\ log' = [log EXCEPT !.loaded = @ \cup {"umap_2d"}]
                 /\ pc' = "umap_10d"
                 /\ UNCHANGED umap_2d_file
       ELSE /\ umap_2d' = reduce_umap(embeddings, 2)
            /\ umap_2d_file' = reduce_umap(embeddings, 2)
            /\ log' = [log EXCEPT !.computed = @ \cup {"umap_2d"}]
            /\ pc' = "umap_10d"
    /\ UNCHANGED <<emb_file, meta_file, umap_10d_file, labels_file, clusters_file,
                   summary_file, run_meta_file>>
    /\ UNCHANGED <<ldVars, fnVars, args, records, service, embVars, runs>>
    /\ UNCHANGED <<umap_10d, strat, labels, summary, existing, sidx>>

\* umap_10d: np.load, or reduce_umap and np.save; then the first strategy block
main_umap_10d ==
    /\ pc = "umap_10d"
    /\ IF reuse(umap_10d_file, args.force_umap)
       THEN IF umap_10d_file = Corrupt
            THEN raise("np.load") /\ UNCHANGED <<umap_10d, umap_10d_file, strat>>
            ELSE /\ umap_10d' = umap_10d_file
                 /\ log' = [log EXCEPT !.loaded = @ \cup {"umap_10d"}]
                 /\ pc' = "labels"
                 /\ strat' = 1
                 /\ UNCHANGED umap_10d_file
       ELSE /\ umap_10d' = reduce_umap(embeddings, 10)
            /\ umap_10d_file' = reduce_umap(embeddings, 10)
            /\ log' = [log EXCEPT !.computed = @ \cup {"umap_10d"}]
            /\ pc' = "labels"
            /\ strat' = 1
    /\ UNCHANGED <<emb_file, meta_file, umap_2d_file, labels_file, clusters_file,
                   summary_file, run_meta_file>>
    /\ UNCHANGED <<ldVars, fnVars, args, records, service, embVars, runs>>
    /\ UNCHANGED <<umap_2d, labels, summary, existing, sidx>>

\* labels of one strategy block: np.load, or the clustering and np.save
main_labels ==
    /\ pc = "labels"
    /\ LET mth == method(strat, args)
           input == IF mth = "kmeans_embed" THEN embeddings ELSE umap_10d
       IN IF reuse(labels_file[mth], args.force_cluster)
          THEN IF labels_file[mth] = Corrupt
               THEN raise("np.load") /\ UNCHANGED <<labels, labels_file>>
               ELSE /\ labels' = labels_file[mth]
                    /\ log' = [log EXCEPT !.loaded = @ \cup {mth}]
                    /\ pc' = "outputs"
                    /\ UNCHANGED labels_file
          ELSE /\ labels' = fit_predict(mth, input, args)
               /\ labels_file' = [labels_file EXCEPT ![mth] = fit_predict(mth, input, args)]
               /\ log' = [log EXCEPT !.computed = @ \cup {mth}]
               /\ pc' = "outputs"
    /\ UNCHANGED <<emb_file, meta_file, umap_2d_file, umap_10d_file, clusters_file,
                   summary_file, run_meta_file>>
    /\ UNCHANGED <<ldVars, fnVars, args, records, service, embVars, runs>>
    /\ UNCHANGED <<umap_2d, umap_10d, strat, summary, existing, sidx>>

\* ------------------------------------------------ labeling and the outputs
\* the end of a strategy block: the next block, or the run metadata
next_block ==
    IF strat < Len(Strategies)
    THEN pc' = "labels" /\ strat' = strat + 1
    ELSE pc' = "meta_out" /\ strat' = strat

\* a test that never finds the outputs complete
outputs_complete_never == FALSE

\* the test that heads a strategy block's outputs
outputs_complete ==
    /\ args.resume
    /\ clusters_file[method(strat, args)] # Absent
    /\ is_summary_complete(summary_file[method(strat, args)], labels, args.llm_summary)

with_keywords(d, kw) == [cluster |-> d.cluster, samples |-> d.samples, llm_keywords |-> kw]

\* a strategy block from its completeness test to the first cluster of
\* add_llm_summaries (summarize_clusters, then the stored keywords are read)
main_outputs ==
    /\ pc = "outputs"
    /\ IF outputs_complete
       THEN /\ log' = [log EXCEPT !.skipped = @ \cup {method(strat, args)}]
            /\ next_block
            /\ UNCHANGED <<summary, existing, sidx>>
       ELSE IF args.llm_summary
       THEN /\ summary' = summarize_clusters(records, labels)
            /\ existing' = read_existing(summary_file[method(strat, args)], args)
            /\ sidx' = 0
            /\ pc' = "llm"
            /\ log' = [log EXCEPT !.stored = summary_file[method(strat, args)]]
            /\ UNCHANGED strat
       ELSE /\ pc' = "write_clusters"
            /\ UNCHANGED <<log, strat, summary, existing, sidx>>
    /\ UNCHANGED <<diskVars, ldVars, fnVars, args, records, service, embVars, runs, umap_2d, umap_10d, labels>>

\* summarize_clusters reads records[i] for the first rows of each cluster: with
\* more labels than records that is an IndexError for some label arrays
main_outputs_index_error ==
    /\ pc = "outputs"
    /\ ~outputs_complete
    /\ args.llm_summary
    /\ rows_outrun_records(records, labels)
    /\ raise("IndexError")
    /\ UNCHANGED <<diskVars, ldVars, fnVars, args, records, service, embVars, runs, stageVars>>

\* a pass that ends after the first cluster it handles
llm_step_pc_stops == "write_clusters"

\* the loop of add_llm_summaries goes on, or returns to the block
llm_step_pc == IF sidx + 1 = Len(summary) THEN "write_clusters" ELSE "llm"

\* add_llm_summaries, one cluster whose stored keywords are kept
llm_carry ==
    /\ pc = "llm"
    /\ sidx < Len(summary)
    /\ carried(existing, summary[sidx + 1].cluster)
    /\ summary' = [summary EXCEPT ![sidx + 1] =
                     with_keywords(@, existing_of(existing, summary[sidx + 1].cluster))]
    /\ sidx' = sidx + 1
    /\ pc' = llm_step_pc
    /\ log' = [log EXCEPT !.outcome = None]
    /\ UNCHANGED <<diskVars, ldVars, fnVars, args, records, service, embVars, runs>>
    /\ UNCHANGED <<umap_2d, umap_10d, strat, labels, existing>>

\* what one call of ollama_keywords comes to: a list of keywords, an answer
\* extract_json_array finds no list of strings in, or an exception
LlmOutcomes == {"keywords", "empty", "raises"}

\* add_llm_summaries, one cluster that is requested; the whole document is
\* written after it
llm_request(outcome) ==
    /\ pc = "llm"
    /\ sidx < Len(summary)
    /\ ~carried(existing, summary[sidx + 1].cluster)
    /\ service \in {"any", outcome}
    /\ LET mth == method(strat, args)
           cid == summary[sidx + 1].cluster
           keywords == IF outcome = "keywords" THEN keywords_for(records, labels, cid)
                       ELSE <<>>
           summ == [summary EXCEPT ![sidx + 1] = with_keywords(@, keywords)]
       IN /\ summary' = summ
          /\ summary_file' = [summary_file EXCEPT ![mth] = summary_doc(summ)]
          /\ log' = [log EXCEPT !.llm = Append(@, <<mth, cid>>), !.outcome = outcome]
    /\ sidx' = sidx + 1
    /\ pc' = llm_step_pc
    /\ UNCHANGED <<emb_file, meta_file, umap_2d_file, umap_10d_file, labels_file,
                   clusters_file, run_meta_file>>
    /\ UNCHANGED <<ldVars, fnVars, args, records, service, embVars, runs>>
    /\ UNCHANGED <<umap_2d, umap_10d, strat, labels, existing>>

\* titles = [records[i].title for i in indices] of a cluster with a row the
\* records do not have
llm_index_error ==
    /\ pc = "llm"
    /\ sidx < Len(summary)
    /\ ~carried(existing, summary[sidx + 1].cluster)
    /\ rows_outrun_records(records, labels)
    /\ raise("IndexError")
    /\ UNCHANGED <<diskVars, ldVars, fnVars, args, records, service, embVars, runs, stageVars>>

\* write_outputs: clusters_{method}.json
write_clusters ==
    /\ pc = "write_clusters"
    /\ clusters_file' = [clusters_file EXCEPT ![method(strat, args)] =
                           clusters_doc(records, labels, umap_2d)]
    /\ pc' = "write_summary"
    /\ log' = [log EXCEPT !.outcome = None]
    /\ UNCHANGED <<emb_file, meta_file, umap_2d_file, umap_10d_file, labels_file,
                   summary_file, run_meta_file>>
    /\ UNCHANGED <<ldVars, fnVars, args, records, service, embVars, runs, stageVars>>

\* write_outputs: summary or summarize_clusters(records, labels), written to
\* clusters_{method}_summary.json; then the next block
write_summary ==
    /\ pc = "write_summary"
    /\ summary_file' = [summary_file EXCEPT ![method(strat, args)] =
                          summary_doc(IF summary # <<>> THEN summary
                                      ELSE summarize_clusters(records, labels))]
    /\ log' = [log EXCEPT !.wrote = @ \cup {method(strat, args)}]
    /\ next_block
    /\ summary' = <<>>
    /\ existing' = {}
    /\ sidx' = 0
    /\ UNCHANGED <<emb_file, meta_file, umap_2d_file, umap_10d_file, labels_file,
                   clusters_file, run_meta_file>>
    /\ UNCHANGED <<ldVars, fnVars, args, records, service, embVars, runs>>
    /\ UNCHANGED <<umap_2d, umap_10d, labels>>

\* ... where summarize_clusters meets a row the records do not have
write_summary_index_error ==
    /\ pc = "write_summary"
    /\ summary = <<>>
    /\ rows_outrun_records(records, labels)
    /\ raise("IndexError")
    /\ UNCHANGED <<diskVars, ldVars, fnVars, args, records, service, embVars, runs, stageVars>>

\* run_{year}_meta.json, and the end of main()
write_run_meta ==
    /\ pc = "meta_out"
    /\ run_meta_file' = meta
    /\ pc' = "done"
    /\ UNCHANGED <<emb_file, meta_file, umap_2d_file, umap_10d_file, labels_file,
                   clusters_file, summary_file>>
    /\ UNCHANGED <<ldVars, fnVars, args, records, service, embVars, runs, log, stageVars>>

\* the process is killed inside the np.save of a projection or of a label array
kill_in_write_stage ==
    /\ \/ /\ pc = "umap_2d"
          /\ ~reuse(umap_2d_file, args.force_umap)
          /\ umap_2d_file' = Corrupt
          /\ UNCHANGED <<umap_10d_file, labels_file>>
       \/ /\ pc = "umap_10d"
          /\ ~reuse(umap_10d_file, args.force_umap)
          /\ umap_10d_file' = Corrupt
          /\ UNCHANGED <<umap_2d_file, labels_file>>
       \/ /\ pc = "labels"
          /\ ~reuse(labels_file[method(strat, args)], args.force_cluster)
          /\ labels_file' = [labels_file EXCEPT ![method(strat, args)] = Corrupt]
          /\ UNCHANGED <<umap_2d_file, umap_10d_file>>
    /\ pc' = "idle"
    /\ MemReset
    /\ UNCHANGED <<emb_file, meta_file, clusters_file, summary_file, run_meta_file>>
    /\ UNCHANGED <<ldVars, fnVars, runs>>

\* the process is killed inside a write_text of the summary or of the
\* per-record document
kill_in_write_outputs ==
    /\ \/ /\ pc = "llm"
          /\ sidx < Len(summary)
          /\ ~carried(existing, summary[sidx + 1].cluster)
          /\ summary_file' = [summary_file EXCEPT ![method(strat, args)] = Corrupt]
          /\ UNCHANGED clusters_file
       \/ /\ pc = "write_clusters"
          /\ clusters_file' = [clusters_file EXCEPT ![method(strat, args)] = Corrupt]
          /\ UNCHANGED summary_file
       \/ /\ pc = "write_summary"
          /\ summary_file' = [summary_file EXCEPT ![method(strat, args)] = Corrupt]
          /\ UNCHANGED clusters_file
    /\ pc' = "idle"
    /\ MemReset
    /\ UNCHANGED <<emb_file, meta_file, umap_2d_file, umap_10d_file, labels_file,
                   run_meta_file>>
    /\ UNCHANGED <<ldVars, fnVars, runs>>

ProjStage ==
    \/ main_umap_2d
    \/ main_umap_10d
    \/ main_labels
    \/ kill_in_write_stage

OutStage ==
    \/ main_outputs
    \/ main_outputs_index_error
    \/ llm_carry
    \/ \E outcome \in LlmOutcomes : llm_request(outcome)
    \/ llm_index_error
    \/ write_clusters
    \/ write_summary
    \/ write_summary_index_error
    \/ kill_in_write_outputs

\* a strategy block entered with the labels the clustering stage hands it: the
\* array of any corpus the year has held, under either min_cluster_size
strategy_block_start(a, c, lab, xy) ==
    /\ pc \in {"idle", "done", "failed"}
    /\ runs' = runs + 1
    /\ service' = "any"
    /\ args' = a
    /\ records' = c
    /\ log' = EmptyLog
    /\ embeddings' = Unset
    /\ meta' = Unset
    /\ i' = 0
    /\ all_embs' = 0
    /\ umap_2d' = xy
    /\ umap_10d' = Unset
    /\ strat' = 1
    /\ labels' = lab
    /\ summary' = <<>>
    /\ existing' = {}
    /\ sidx' = 0
    /\ pc' = "outputs"
    /\ UNCHANGED <<diskVars, ldVars, fnVars>>

\* the options of a run with its force flags taken away
unforced(a) ==
    [a EXCEPT !.force = FALSE, !.force_embed = FALSE, !.force_umap = FALSE,
              !.force_cluster = FALSE, !.resume = TRUE]

\* every entry of every strategy's stored summary has a non-empty keyword list
summaries_labeled(a) ==
    \A s \in 1..Len(Strategies) :
       LET doc == summary_file[method(s, a)] IN
       /\ doc # Absent
       /\ doc # Corrupt
       /\ \A k \in 1..Len(doc.items) : ~no_keywords(doc.items[k])

\* the run that starts follows at once a run that went through every stage, on
\* the same records and with the same options but for the force flags
rerun(a, c) ==
    /\ pc = "done"
    /\ c = records
    /\ a = unforced(args)
    /\ a.llm_summary => summaries_labeled(a)

\* main(): parse_args, the --force block, load_records
main_start(a, c, sv) ==
    /\ pc \in {"idle", "done", "failed"}
    /\ runs' = runs + 1
    /\ service' = sv
    /\ args' = a
    /\ records' = c
    /\ log' = [EmptyLog EXCEPT !.rerun = rerun(a, c)]
    /\ RunReset
    /\ pc' = "get_embeddings"
    /\ UNCHANGED <<diskVars, ldVars, fnVars>>

\* main() with the embedding matrix of the records in hand, at the projections
stage_start(a, c) ==
    /\ pc \in {"idle", "done", "failed"}
    /\ runs' = runs + 1
    /\ service' = "any"
    /\ args' = a
    /\ records' = c
    /\ log' = EmptyLog
    /\ embeddings' = Matrix(c, a.model, CorpusCount(c))
    /\ meta' = new_meta(c, a)
    /\ i' = 0
    /\ all_embs' = 0
    /\ umap_2d' = Unset
    /\ umap_10d' = Unset
    /\ strat' = 0
    /\ labels' = Unset
    /\ summary' = <<>>
    /\ existing' = {}
    /\ sidx' = 0
    /\ pc' = "umap_2d"
    /\ UNCHANGED <<diskVars, ldVars, fnVars>>

\* runs of the projection and clustering stages over one ./tmp directory
MaxStageRuns == 3

\* --min-cluster-size: the default and another value
MinClusterSizes == {15, 5}

ArgsStage ==
    {parse_args(m, FALSE, FALSE, fu, fc, FALSE, FALSE, mcs) :
        m \in Models, fu \in BOOLEAN, fc \in BOOLEAN, mcs \in MinClusterSizes}

\* the projections and the first strategy's labels, run after run
NextStage ==
    \/ \E a \in ArgsStage, c \in Corpora : runs < MaxStageRuns /\ stage_start(a, c)
    \/ ProjStage
    \/ kill

\* runs of one strategy block over one ./tmp directory
MaxBlockRuns == 3

ArgsBlock ==
    {parse_args("arctic", f, FALSE, FALSE, FALSE, llm, FALSE, 15) :
        f \in BOOLEAN, llm \in BOOLEAN}

\* the projections and the label arrays of the first block that a run may hold
Projection(c, dims) == reduce_umap(Matrix(c, "arctic", CorpusCount(c)), dims)

BlockLabels(a) == {fit_predict("hdbscan", Projection(c, 10), a) : c \in Corpora}

NextBlock ==
    \/ \E a \in ArgsBlock, c \in Corpora :
          \E lab \in BlockLabels(a) :
             runs < MaxBlockRuns /\ strategy_block_start(a, c, lab, Projection(c, 2))
    \/ OutStage
    \/ kill

ArgsEmb ==
    {parse_args(m, FALSE, fe, FALSE, FALSE, FALSE, FALSE, 15) : m \in Models, fe \in BOOLEAN}

EmbStage ==
    \/ get_embeddings
    \/ embed_batch
    \/ embed_batch_raises
    \/ save_embeddings
    \/ save_meta
    \/ kill_in_write_emb

NextEmb ==
    \/ \E a \in ArgsEmb, c \in Corpora : runs < MaxEmbRuns /\ main_start(a, c, "any")
    \/ EmbStage
    \/ kill

\* the options tried on whole runs
ArgsMain ==
    {parse_args("arctic", f, fe, FALSE, fc, llm, FALSE, 15) :
        f \in BOOLEAN, fe \in BOOLEAN, fc \in BOOLEAN, llm \in BOOLEAN}

\* on whole runs the language-model service answers the same way all run long
ServiceModes == {"keywords", "raises"}

Next ==
    \/ \E a \in ArgsMain, c \in Corpora :
          \E sv \in (IF a.llm_summary THEN ServiceModes ELSE {"any"}) :
             runs < MaxRuns /\ main_start(a, c, sv)
    \/ EmbStage
    \/ ProjStage
    \/ OutStage
    \/ write_run_meta
    \/ kill

\* ---------------------------------------------------------- cluster_kmeans
\* int(math.sqrt(n))
isqrt(x) == CHOOSE r \in 0..x : r * r <= x /\ (r + 1) * (r + 1) > x

\* sorted({5, 8, 10, 12, 15, 20, 25, sqrt_n} - {0, 1})
kmeans_candidates(x) == sorted(({5, 8, 10, 12, 15, 20, 25} \cup {isqrt(x)}) \ {0, 1})

\* if k <= 1 or k >= len(embeddings): continue
discarded(k, x) == k <= 1 \/ k >= x

\* silhouette_score lies between -1.0 and 1.0: three levels of it
Silhouettes == {-1, 0, 1}

\* a comparison that lets a later candidate take over an equal score
improves_or_equals(score, best) == score >= best

\* if score > best_score
improves(score, best) == score > best

KmInit ==
    /\ kpc = "start"
    /\ n \in 0..MaxRecords
    /\ candidates = <<>>
    /\ kpos = 0
    /\ best_k = 0
    /\ best_score = 0
    /\ scored = <<>>
    /\ raised = {}

\* cluster_kmeans up to the call of pick_kmeans_k, and the first two lines of it
cluster_kmeans_start ==
    /\ kpc = "start"
    /\ candidates' = kmeans_candidates(n)
    /\ best_k' = kmeans_candidates(n)[1]
    /\ best_score' = -1
    /\ kpos' = 0
    /\ kpc' = "pick"
    /\ UNCHANGED <<n, scored, raised>>

\* for k in candidates: a candidate that is passed over
pick_discard ==
    /\ kpc = "pick"
    /\ kpos < Len(candidates)
    /\ discarded(candidates[kpos + 1], n)
    /\ kpos' = kpos + 1
    /\ UNCHANGED <<kpc, n, candidates, best_k, best_score, scored, raised>>

\* the rest of one iteration, from the score on
pick_take(k, score) ==
    /\ scored' = Append(scored, <<k, score>>)
    /\ IF improves(score, best_score)
       THEN best_score' = score /\ best_k' = k
       ELSE UNCHANGED <<best_k, best_score>>
    /\ kpos' = kpos + 1
    /\ UNCHANGED <<kpc, n, candidates>>

\* ... a candidate that is fitted and scored
pick_score(score) ==
    /\ kpc = "pick"
    /\ kpos < Len(candidates)
    /\ ~discarded(candidates[kpos + 1], n)
    /\ pick_take(candidates[kpos + 1], score)
    /\ UNCHANGED raised

\* ... a candidate whose silhouette_score raises: score = -1.0
pick_score_raises ==
    /\ kpc = "pick"
    /\ kpos < Len(candidates)
    /\ ~discarded(candidates[kpos + 1], n)
    /\ pick_take(candidates[kpos + 1], -1)
    /\ raised' = raised \cup {candidates[kpos + 1]}

\* return best_k
pick_return ==
    /\ kpc = "pick"
    /\ kpos = Len(candidates)
    /\ kpc' = "fit"
    /\ UNCHANGED <<n, candidates, kpos, best_k, best_score, scored, raised>>

\* KMeans(n_clusters=best_k).fit_predict(embeddings): KMeans raises ValueError
\* when there are fewer samples than clusters
kmeans_fit ==
    /\ kpc = "fit"
    /\ kpc' = IF n >= best_k THEN "done" ELSE "failed"
    /\ UNCHANGED <<n, candidates, kpos, best_k, best_score, scored, raised>>

\* a call of cluster_kmeans alone
InitKMeans ==
    LoadIdle /\ HashIdle /\ KmInit /\ DiskInit /\ MemInit /\ runs = 0 /\ log = EmptyLog

NextKMeans ==
    \/ (cluster_kmeans_start /\ UNCHANGED <<ldVars, hashVars, runVars>>)
    \/ (pick_discard /\ UNCHANGED <<ldVars, hashVars, runVars>>)
    \/ (\E score \in Silhouettes : pick_score(score) /\ UNCHANGED <<ldVars, hashVars, runVars>>)
    \/ (pick_score_raises /\ UNCHANGED <<ldVars, hashVars, runVars>>)
    \/ (pick_return /\ UNCHANGED <<ldVars, hashVars, runVars>>)
    \/ (kmeans_fit /\ UNCHANGED <<ldVars, hashVars, runVars>>)

SpecKMeans == InitKMeans /\ [][NextKMeans]_vars

\* a call of load_records alone
InitLoad ==
    LoadInit /\ HashIdle /\ KmIdle /\ DiskInit /\ MemInit /\ runs = 0 /\ log = EmptyLog

NextLoad ==
    \/ (load_skip_file /\ UNCHANGED <<runVars, fnVars>>)
    \/ (load_open_file /\ UNCHANGED <<runVars, fnVars>>)
    \/ (\E raw \in RawTitles : load_item(raw) /\ UNCHANGED <<runVars, fnVars>>)
    \/ (load_end_file /\ UNCHANGED <<runVars, fnVars>>)
    \/ (load_return /\ UNCHANGED <<runVars, fnVars>>)

SpecLoad == InitLoad /\ [][NextLoad]_vars

\* two calls of sha256_of_titles alone
InitHash ==
    LoadIdle /\ HashInit /\ KmIdle /\ DiskInit /\ MemInit /\ runs = 0 /\ log = EmptyLog

NextHash ==
    \/ (\E j \in 1..2 : sha256_update(j) /\ UNCHANGED <<ldVars, kmVars, runVars>>)
    \/ (\E j \in 1..2 : sha256_hexdigest(j) /\ UNCHANGED <<ldVars, kmVars, runVars>>)

SpecHash == InitHash /\ [][NextHash]_vars

SpecEmb == RunInit /\ [][NextEmb]_vars

SpecBlock == RunInit /\ [][NextBlock]_vars

SpecStage == RunInit /\ [][NextStage]_vars

Spec == RunInit /\ [][Next]_vars

\* ------------------------------------------------------------- properties

\* what trimming a raw title must give: the part left between its leading and
\* its trailing whitespace
TrimOf(raw) ==
    IF raw = Missing THEN <<>>
    ELSE CHOOSE t \in {SubSeq(raw, a, b) : a \in 1..(Len(raw) + 1), b \in 0..Len(raw)} :
           /\ \E a \in 1..(Len(raw) + 1), b \in 0..Len(raw) :
                /\ t = SubSeq(raw, a, b)
                /\ \A k \in 1..(a - 1) : raw[k] \in Whitespace
                /\ \A k \in (b + 1)..Len(raw) : raw[k] \in Whitespace
           /\ t # <<>> => t[1] \notin Whitespace /\ t[Len(t)] \notin Whitespace

RECURSIVE TitledItems(_)
\* the trimmed titles of the raw items that have one, in scan order
TitledItems(sc) ==
    IF sc = <<>> THEN <<>>
    ELSE LET t == TrimOf(Head(sc)) IN
         IF t = <<>> THEN TitledItems(Tail(sc)) ELSE <<t>> \o TitledItems(Tail(sc))

RECURSIVE FirstSeen(_, _)
\* the distinct titles of ts in first-seen order, after those of acc
FirstSeen(ts, acc) ==
    IF ts = <<>> THEN acc
    ELSE FirstSeen(Tail(ts), IF Head(ts) \in Range(acc) THEN acc ELSE Append(acc, Head(ts)))

\* C4: with no limit, load_records returns one record per distinct non-empty
\* trimmed title, in first-seen order with ids 0..D-1, no title twice, and the
\* dup_counts add up to the number of raw items that have a title.
C4_Dedup ==
    (lpc = "done" /\ limit = 0) =>
        LET ts == TitledItems(scanned)
            fs == FirstSeen(ts, <<>>)
        IN /\ Len(seen) = Cardinality(Range(ts))
           /\ \A k \in 1..Len(seen) : seen[k].id = k - 1 /\ seen[k].title = fs[k]
           /\ \A k, l \in 1..Len(seen) : seen[k].title = seen[l].title => k = l
           /\ SumSeq([k \in 1..Len(seen) |-> seen[k].dup_count]) = Len(ts)

\* a finished load with a repeated title (once padded), a second title that
\* differs in case only, and a blank item
C4_Witness ==
    /\ lpc = "done"
    /\ limit = 0
    /\ Len(seen) = 2
    /\ seen[1].dup_count = 2
    /\ <<" ", "a">> \in Range(scanned)
    /\ <<" ">> \in Range(scanned)
    /\ <<"A">> \in Range(scanned)

\* the batch offsets range(0, len(titles), batch_size) of a corpus
BatchOffsets(c) ==
    [k \in 1..((CorpusCount(c) + batch_size - 1) \div batch_size) |-> (k - 1) * batch_size]

\* the stored pair a request for (records, model) may be served from
StoredFor(c, model) ==
    /\ emb_file.st = "ok"
    /\ meta_file.st = "ok"
    /\ meta_file.corpus_hash = corpus_hash(c)
    /\ meta_file.model = model

\* the stored metadata names another corpus
StoredStale(c) == meta_file.st = "ok" /\ meta_file.corpus_hash # corpus_hash(c)

\* C1: a stored matrix whose metadata names the current fingerprint and model is
\* returned without a call of the embedding service unless force_embed is set;
\* when the stored fingerprint differs or force_embed is set, every batch of the
\* corpus is requested and the result replaces the stored matrix and metadata.
C1_CacheValidity ==
    /\ [][(pc = "get_embeddings" /\ pc' # "idle") =>
            /\ (StoredFor(records, args.model) /\ ~args.force_embed) =>
                 (pc' = "umap_2d" /\ embeddings' = emb_file /\ log'.embed = <<>>
                  /\ UNCHANGED diskVars)
            /\ (StoredStale(records) \/ args.force_embed) =>
                 (pc' = "embed" /\ log'.embed = <<>>)]_vars
    /\ [](pc \in {"save_meta", "umap_2d"} /\ ~log.hit => log.embed = BatchOffsets(records))
    /\ []((pc = "umap_2d" /\ ~log.hit) =>
            /\ emb_file = Matrix(records, args.model, CorpusCount(records))
            /\ meta_file = new_meta(records, args)
            /\ embeddings = emb_file)

\* a second call finds the matrix of another corpus stored, requests every batch
\* and has replaced matrix and metadata
C1_Witness ==
    /\ runs = 2
    /\ pc = "umap_2d"
    /\ ~args.force_embed
    /\ ~log.hit
    /\ Len(log.embed) = 3
    /\ emb_file.rows = 300

\* C6: a cache hit returns a matrix computed from the current corpus and model.
C6_HitIsCurrent ==
    (pc = "umap_2d" /\ log.hit) =>
        (embeddings.corpus = records /\ embeddings.model = args.model)

\* the method of the strategy block that is running
cur_method == method(strat, args)

\* a stored summary document that parses
Readable(doc) == doc.st = "ok"

\* the clusters a stored document names
DocClusters(doc) == {doc.items[k].cluster : k \in 1..Len(doc.items)}

\* the entry a stored document holds for a cluster
DocEntry(doc, cid) == doc.items[CHOOSE k \in 1..Len(doc.items) : doc.items[k].cluster = cid]

\* the stored keyword list of a cluster is present and not empty
StoredLabeled(doc, cid) ==
    /\ Readable(doc)
    /\ cid \in DocClusters(doc)
    /\ "llm_keywords" \in DOMAIN DocEntry(doc, cid)
    /\ Len(DocEntry(doc, cid).llm_keywords) > 0

\* the stored keyword list of a cluster is present and empty
StoredEmpty(doc, cid) ==
    /\ Readable(doc)
    /\ cid \in DocClusters(doc)
    /\ "llm_keywords" \in DOMAIN DocEntry(doc, cid)
    /\ Len(DocEntry(doc, cid).llm_keywords) = 0

\* the requests of the running block, in the order issued
BlockRequests ==
    LET mine == SelectSeq(log.llm, LAMBDA r : r[1] = cur_method)
    IN [k \in 1..Len(mine) |-> mine[k][2]]

\* the clusters a resumed pass has to request, ascending
ToRequest == sorted({c \in cluster_ids(labels) : ~StoredLabeled(log.stored, c)})

IsPrefix(a, b) == Len(a) <= Len(b) /\ SubSeq(b, 1, Len(a)) = a

\* the labeling pass of the running block is over, the outputs are not yet written
PassOver == pc = "write_clusters" /\ args.llm_summary

\* the running block has just written its outputs
BlockWritten ==
    /\ pc \in {"labels", "meta_out"}
    /\ strat >= 1
    /\ labels # Unset
    /\ labels.alg \in log.wrote

\* C2: with resume on, the pass requests exactly the current clusters that have
\* no non-empty stored keyword list, in ascending order, and the document
\* written at the end has one entry per current cluster, the clusters that had
\* stored keywords keeping them.
C2_ResumableLabeling ==
    (args.resume /\ args.llm_summary) =>
        /\ pc = "llm" => IsPrefix(BlockRequests, ToRequest)
        /\ PassOver =>
             /\ BlockRequests = ToRequest
             /\ [k \in 1..Len(summary) |-> summary[k].cluster] = sorted(cluster_ids(labels))
             /\ \A k \in 1..Len(summary) :
                  StoredLabeled(log.stored, summary[k].cluster) =>
                     summary[k].llm_keywords =
                        DocEntry(log.stored, summary[k].cluster).llm_keywords
        /\ (BlockWritten /\ pc = "labels" /\ strat = 2) =>
             LET doc == summary_file[labels.alg] IN
             /\ Readable(doc)
             /\ [k \in 1..Len(doc.items) |-> doc.items[k].cluster]
                   = sorted(cluster_ids(labels))
             /\ \A c \in cluster_ids(labels) :
                  StoredLabeled(log.stored, c) =>
                     DocEntry(doc, c).llm_keywords = DocEntry(log.stored, c).llm_keywords

\* a resumed pass over clusters -1, 0, 1 that found keywords stored for cluster 0
\* only: it requested -1 and 1 and wrote all three
C2_Witness ==
    /\ BlockWritten
    /\ args.resume
    /\ args.llm_summary
    /\ log.llm = <<<<"hdbscan", -1>>, <<"hdbscan", 1>>>>
    /\ StoredLabeled(log.stored, 0)
    /\ Len(summary_file["hdbscan"].items) = 3
    /\ DocEntry(summary_file["hdbscan"], 0).llm_keywords = DocEntry(log.stored, 0).llm_keywords

\* C3: is_summary_complete is false when the stored cluster ids are not the
\* current ones (keywords or not) and, labeling required, when an entry has no
\* keywords; it is true for a readable non-empty list with the current ids and,
\* labeling required, keywords in every entry.
C3_CompletionCheck ==
    pc = "outputs" =>
        LET doc == summary_file[cur_method]
            same == Readable(doc) /\ DocClusters(doc) = cluster_ids(labels)
            all_labeled == Readable(doc) /\ \A c \in DocClusters(doc) : StoredLabeled(doc, c)
        IN /\ ~same => \A req \in BOOLEAN : ~is_summary_complete(doc, labels, req)
           /\ ~all_labeled => ~is_summary_complete(doc, labels, TRUE)
           /\ (same /\ Len(doc.items) > 0) => is_summary_complete(doc, labels, FALSE)
           /\ (same /\ Len(doc.items) > 0 /\ all_labeled) =>
                 is_summary_complete(doc, labels, TRUE)

\* the stored document has keywords in every entry, for other clusters than the
\* current ones
C3_Witness ==
    /\ pc = "outputs"
    /\ Readable(summary_file[cur_method])
    /\ \A c \in DocClusters(summary_file[cur_method]) :
          StoredLabeled(summary_file[cur_method], c)
    /\ DocClusters(summary_file[cur_method]) # cluster_ids(labels)
    /\ args.llm_summary
    /\ args.resume
    /\ clusters_file[cur_method] # Absent

\* the stored entry of a cluster was summarised from the records and the label
\* array of the running block
SameAssignment(doc, cid) ==
    DocEntry(doc, cid).samples = <<records, labels.corpus, labels.model, labels.par>>

\* C7 as claimed: a cluster stored with an empty keyword list is never
\* requested again by a resumed labeling run over the same label assignment.
C7_EmptyIsTerminal ==
    (args.resume /\ args.llm_summary /\ pc \in {"llm", "write_clusters"}) =>
        \A k \in 1..Len(BlockRequests) :
            ~(StoredEmpty(log.stored, BlockRequests[k])
              /\ SameAssignment(log.stored, BlockRequests[k]))

\* C7 as the code has it: an entry with an empty keyword list makes the stored
\* document incomplete when labeling is required, and a resumed pass requests
\* every current cluster stored with an empty list again.
C7_EmptyIsRetried ==
    /\ (pc = "outputs" /\ args.llm_summary
        /\ \E c \in cluster_ids(labels) : StoredEmpty(summary_file[cur_method], c))
          => ~outputs_complete
    /\ (args.resume /\ PassOver) =>
          \A c \in cluster_ids(labels) :
             StoredEmpty(log.stored, c) => c \in Range(BlockRequests)

\* a resumed pass over the same label assignment has requested a cluster that
\* was stored with an empty list
C7_Witness ==
    /\ args.resume
    /\ PassOver
    /\ \E c \in cluster_ids(labels) :
          /\ StoredEmpty(log.stored, c)
          /\ SameAssignment(log.stored, c)
          /\ c \in Range(BlockRequests)

\* C8: a request that raises leaves the cluster stored with an empty keyword
\* list and the pass at the next cluster; the pass requests every cluster it
\* does not carry over; a labeling run that ends has written or skipped the
\* outputs of every strategy.
C8_FailureIsolated ==
    /\ [][(Len(log'.llm) = Len(log.llm) + 1 /\ log'.outcome = "raises") =>
            /\ pc' \in {"llm", "write_clusters"}
            /\ sidx' = sidx + 1
            /\ strat' = strat
            /\ StoredEmpty(summary_file'[log'.llm[Len(log'.llm)][1]],
                           log'.llm[Len(log'.llm)][2])]_vars
    /\ [](PassOver =>
            BlockRequests =
               sorted({c \in cluster_ids(labels) :
                         ~(args.resume /\ StoredLabeled(log.stored, c))}))
    /\ []((pc = "done" /\ args.llm_summary) =>
            \A s \in 1..Len(Strategies) : method(s, args) \in log.wrote \cup log.skipped)

\* a run whose every request raised has ended, all three outputs written
C8_Witness ==
    /\ pc = "done"
    /\ args.llm_summary
    /\ service = "raises"
    /\ log.wrote = {"hdbscan", "kmeans", "agglomerative"}
    /\ Len(log.llm) >= 6
    /\ \A c \in {0, 1} : StoredEmpty(summary_file["agglomerative"], c)

C9_CorruptIsMiss == pc = "failed" => log.cause # "np.load"

\* the cluster requests a run with labeling and without resume makes
AllRequests ==
    LET req(s) == [k \in 1..Cardinality(cluster_ids(fit_predict(method(s, args), umap_10d, args)))
                     |-> <<method(s, args),
                           sorted(cluster_ids(fit_predict(method(s, args), umap_10d, args)))[k]>>]
    IN req(1) \o req(2) \o req(3)

\* C10: a --force run that ends has requested every batch of the corpus, has
\* computed both projections and the three label arrays, has loaded and skipped
\* nothing, has requested every cluster when labeling is on, and has written
\* the outputs of every strategy.
C10_ForceAll ==
    /\ args.force => (~log.hit /\ log.loaded = {} /\ log.skipped = {} /\ existing = {})
    /\ (args.force /\ pc = "done") =>
         /\ log.embed = BatchOffsets(records)
         /\ log.computed = {"embeddings", "umap_2d", "umap_10d"}
                              \cup {method(s, args) : s \in 1..Len(Strategies)}
         /\ log.wrote = {method(s, args) : s \in 1..Len(Strategies)}
         /\ args.llm_summary => log.llm = AllRequests
         /\ ~args.llm_summary => log.llm = <<>>
         /\ emb_file = Matrix(records, args.model, CorpusCount(records))
         /\ umap_2d_file = reduce_umap(emb_file, 2)
         /\ umap_10d_file = reduce_umap(emb_file, 10)
         /\ \A s \in 1..Len(Strategies) :
              LET mth == method(s, args) IN
              /\ labels_file[mth] = fit_predict(mth, umap_10d_file, args)
              /\ clusters_file[mth] = clusters_doc(records, labels_file[mth], umap_2d_file)
              /\ Readable(summary_file[mth])
              /\ DocClusters(summary_file[mth]) = cluster_ids(labels_file[mth])

\* a second run, with --force and labeling, has ended; the last block found
\* keywords stored for all its clusters and requested them all the same
C10_Witness ==
    /\ pc = "done"
    /\ runs = 2
    /\ args.force
    /\ args.llm_summary
    /\ Readable(log.stored)
    /\ \A c \in DocClusters(log.stored) : StoredLabeled(log.stored, c)
    /\ Len(log.llm) >= 6

\* C11: two title sequences get the same fingerprint exactly when they are the
\* same sequence.
C11_FingerprintInjective ==
    (hexdigest[1] # <<>> /\ hexdigest[2] # <<>>) =>
        (hexdigest[1] = hexdigest[2] <=> texts[1] = texts[2])

\* pick_kmeans_k has returned
Picked == kpc \in {"fit", "done", "failed"}

Eligible == {k \in Range(candidates) : ~discarded(k, n)}

\* the score pick_kmeans_k gave an eligible candidate
ScoreOf(k) == (CHOOSE e \in Range(scored) : e[1] = k)[2]

BestScored == {k \in Eligible : \A j \in Eligible : ScoreOf(k) >= ScoreOf(j)}

\* C12: with at least one eligible candidate, pick_kmeans_k returns the
\* smallest of the eligible candidates that attain the maximum score.
C12_TieBreak ==
    (Picked /\ Eligible # {}) =>
        /\ best_k \in BestScored
        /\ \A k \in BestScored : best_k <= k

\* 8 and 12 share the best score, above the other candidates: 8 is returned
C12_Witness ==
    /\ kpc = "done"
    /\ {8, 12} \subseteq Eligible
    /\ BestScored = {8, 12}
    /\ ScoreOf(8) = 1
    /\ best_k = 8

\* C18: the k cluster_kmeans uses is a candidate that was not discarded, and
\* not one whose scoring raised.
C18_SelectedEligible ==
    Picked => (best_k \in Eligible /\ best_k \notin raised)

\* C13: with a limit L > 0, load_records returns the first min(L, D) distinct
\* titles in first-seen order with ids 0..min(L, D)-1; it returns fewer than L
\* only when every document has been taken, and the item that brings the L-th
\* distinct title is the last one scanned, the step that retains it ending the
\* scan.
C13_Limit ==
    /\ [](  (lpc = "done" /\ limit > 0) =>
              LET ts == TitledItems(scanned)
                  fs == FirstSeen(ts, <<>>)
              IN /\ Len(seen) = Min(limit, Len(fs))
                 /\ \A k \in 1..Len(seen) : seen[k].id = k - 1 /\ seen[k].title = fs[k]
                 /\ Len(seen) < limit => idx = total_files
                 /\ Len(seen) = limit =>
                      /\ Len(fs) = limit
                      /\ TrimOf(scanned[Len(scanned)]) = fs[limit]
                      /\ fs[limit] \notin
                           Range(TitledItems(SubSeq(scanned, 1, Len(scanned) - 1))))
    /\ [][(limit > 0 /\ next_id' = limit /\ next_id < limit) => lpc' = "done"]_vars

\* a load that stopped at the second distinct title, after a repeat of the
\* first, with a document still untaken
C13_Witness ==
    /\ lpc = "done"
    /\ limit = 2
    /\ Len(seen) = 2
    /\ seen[1].dup_count = 2
    /\ Len(scanned) = 3
    /\ idx < total_files

\* C14: a projection that is loaded is the projection of the embedding matrix
\* of the run, and a label array that is loaded is what the strategy gives on
\* the input and with the parameters of the run.
C14_KeyedByProvenance ==
    /\ "umap_2d" \in log.loaded => umap_2d = reduce_umap(embeddings, 2)
    /\ "umap_10d" \in log.loaded => umap_10d = reduce_umap(embeddings, 10)
    /\ (pc = "outputs" /\ cur_method \in log.loaded) =>
          labels = fit_predict(cur_method, umap_10d, args)

\* a run with --force-embed and no other force flag
EmbedOnly == args.force_embed /\ ~args.force_umap /\ ~args.force_cluster /\ ~args.force

Stored(file) == file # Absent /\ file # Corrupt

\* C15: in a run with --force-embed alone the embedding service is asked for
\* every batch, and each stored projection and label array is left as it is on
\* disk and is what the run takes once it has passed that stage.
C15_NonCascading ==
    /\ []((EmbedOnly /\ pc \notin {"idle", "get_embeddings", "embed", "save_meta", "failed"}) =>
            (~log.hit /\ log.embed = BatchOffsets(records)
             /\ "embeddings" \in log.computed))
    /\ [][EmbedOnly =>
            /\ Stored(umap_2d_file) => umap_2d_file' = umap_2d_file
            /\ Stored(umap_10d_file) => umap_10d_file' = umap_10d_file
            /\ \A mth \in Methods :
                 Stored(labels_file[mth]) => labels_file'[mth] = labels_file[mth]
            /\ (pc = "umap_2d" /\ pc' = "umap_10d" /\ Stored(umap_2d_file)) =>
                 (umap_2d' = umap_2d_file /\ "umap_2d" \in log'.loaded)
            /\ (pc = "umap_10d" /\ pc' = "labels" /\ Stored(umap_10d_file)) =>
                 (umap_10d' = umap_10d_file /\ "umap_10d" \in log'.loaded)
            /\ (pc = "labels" /\ pc' = "outputs" /\ Stored(labels_file[cur_method])) =>
                 (labels' = labels_file[cur_method] /\ cur_method \in log'.loaded)]_vars

\* a second run, with --force-embed alone, has ended with the matrix
\* recomputed and both projections and the three label arrays loaded
C15_Witness ==
    /\ pc = "done"
    /\ runs = 2
    /\ EmbedOnly
    /\ log.computed = {"embeddings"}
    /\ log.loaded = {"umap_2d", "umap_10d", "hdbscan", "kmeans", "agglomerative"}

\* C16: from the start of get_embeddings to a failed batch request no file of
\* ./tmp changes; the failed run has loaded, computed and written nothing; the
\* cache test of a run with the same records and options fails again, and a
\* batch loop always starts at offset 0 with no rows in hand.
C16_NoPartialEmbeddings ==
    /\ [][(pc \in {"get_embeddings", "embed"} /\ pc' \in {"embed", "failed"}) =>
            UNCHANGED diskVars]_vars
    /\ [][(pc = "get_embeddings" /\ pc' = "embed") =>
            (i' = 0 /\ all_embs' = 0 /\ log'.embed = <<>>)]_vars
    /\ [](pc = "embed" => (IsPrefix(log.embed, BatchOffsets(records))
                           /\ Len(log.embed) * batch_size = i))
    /\ []((pc = "failed" /\ log.cause = "embed") =>
            /\ ~cache_hit
            /\ log.computed = {} /\ log.loaded = {} /\ log.wrote = {} /\ log.llm = <<>>
            /\ umap_2d = Unset /\ umap_10d = Unset /\ labels = Unset)

\* the second batch request of a run over stored artifacts has failed
C16_Witness ==
    /\ pc = "failed"
    /\ log.cause = "embed"
    /\ log.embed = <<0>>
    /\ runs = 2
    /\ Stored(emb_file)
    /\ Stored(meta_file)
    /\ Stored(umap_2d_file)

\* the stored document holds the keyword lists the pass has in hand for its
\* first cnt clusters
Checkpointed(doc, summ, cnt) ==
    /\ Readable(doc)
    /\ \A k \in 1..cnt :
         /\ summ[k].cluster \in DocClusters(doc)
         /\ "llm_keywords" \in DOMAIN DocEntry(doc, summ[k].cluster)
         /\ DocEntry(doc, summ[k].cluster).llm_keywords = summ[k].llm_keywords

\* C17: the step that ends a request leaves a stored document with one entry
\* per current cluster and the keyword lists of every cluster handled so far;
\* a kill during the pass leaves a stored document with the keyword lists of
\* every cluster handled before it.
C17_Checkpoint ==
    /\ [][Len(log'.llm) = Len(log.llm) + 1 =>
            /\ Checkpointed(summary_file'[cur_method], summary', sidx')
            /\ Len(summary_file'[cur_method].items) = Cardinality(cluster_ids(labels))
            /\ DocClusters(summary_file'[cur_method]) = cluster_ids(labels)]_vars
    /\ [][(pc = "llm" /\ pc' = "idle" /\ sidx > 0) =>
            Checkpointed(summary_file'[cur_method], summary, sidx)]_vars

\* C19: a run that follows at once a completed run, on the same records and
\* with the same options without force flags, asks the embedding service and
\* the language model for nothing, computes nothing, changes no file of ./tmp
\* but the run metadata, and ends with the outputs of every strategy skipped.
C19_IdempotentRerun ==
    /\ [](log.rerun =>
            /\ log.embed = <<>>
            /\ log.llm = <<>>
            /\ log.computed = {}
            /\ log.wrote = {}
            /\ pc # "failed"
            /\ pc \notin {"idle", "get_embeddings"} => log.hit)
    /\ []((log.rerun /\ pc = "done") =>
            log.skipped = {method(s, args) : s \in 1..Len(Strategies)})
    /\ [][(log.rerun /\ log'.rerun) =>
            UNCHANGED <<emb_file, meta_file, umap_2d_file, umap_10d_file, labels_file,
                        clusters_file, summary_file>>]_vars

\* a run with labeling has ended right after a completed run with labeling
C19_Witness ==
    /\ log.rerun
    /\ pc = "done"
    /\ args.llm_summary
    /\ runs = 2

\* C20: when a block skips its outputs, the stored per-record document of the
\* strategy is one written from the records and the labels of the run.
C20_SkippedCurrent ==
    [][(pc = "outputs" /\ cur_method \notin log.skipped /\ cur_method \in log'.skipped) =>
          /\ Stored(clusters_file[cur_method])
          /\ clusters_file[cur_method].records = records
          /\ clusters_file[cur_method].labels = labels]_vars

\* C21: a keyword list that add_llm_summaries copies from the stored summary
\* onto a cluster is the list a request over the titles of that cluster, under
\* the records and the label array of the run, gives.
C21_CarriedCurrent ==
    [][llm_carry =>
          summary'[sidx + 1].llm_keywords =
             keywords_for(records, labels, summary[sidx + 1].cluster)]_vars

====
